---- MODULE Spec2Model ----
(***************************************************************************)
(* Web client of the expense tracker: the data hooks (useExpenses,         *)
(* useIncomes, useSummary, useCategories), the App handlers that chain     *)
(* them, and the amount handling of ExpenseForm / IncomeForm.              *)
(*                                                                         *)
(* Spec      the ledger synchronisation: App + useExpenses + useIncomes +  *)
(*           useSummary against the REST server, responses in any order.   *)
(* SpecCat   useCategories against the category routes of the server.      *)
(* SpecForm  the amount field of the forms: sanitising, validation and     *)
(*           submission.                                                   *)
(*                                                                         *)
(* Amounts, totals and the balance are counted in cents; the hooks never   *)
(* compute with them, they only store what a response carries.             *)
(***************************************************************************)
EXTENDS Integers, Sequences, FiniteSets, TLC

\* ------------------------------------------------------------------ bounds
MaxOps == 1          \* mutations the user starts in one run of Spec
MaxCatOps == 3       \* operations the user starts in one run of SpecCat
MaxLen == 4          \* longest text typed or pasted into the amount input
MaxCalls == 1        \* calls of onSubmit awaited at the same time
MaxDeletes == 2      \* Delete clicks in one run of SpecDelete

\* --------------------------------------------------------------- constants
Kinds == {"expense", "income"}
Amounts == {525}              \* amounts the user enters
Stored == [expense |-> <<[id |-> 1, amount |-> 1050, category |-> <<"R">>]>>,
           income |-> <<[id |-> 2, amount |-> 10000, category |-> <<"R">>]>>]
                              \* the ledger found at start; category is the source of an income
Null == "null"
ErrMsg == "Request failed"

ListPath(k) == IF k = "expense" THEN "/expenses" ELSE "/incomes"
SummaryPath == "/summary"
Req(m, p, id) == [m |-> m, p |-> p, id |-> id]

VARIABLES
  mounted,     \* the effects of the first render have run
  srv,         \* server: records of each kind, in insertion order
  srvNextId,   \* server: next record id
  hook,        \* state of useExpenses / useIncomes, by kind
  summary,     \* state of useSummary
  editing,     \* App.editingExpense / editingIncome: <<kind, id>> or <<>>
  modal,       \* App.isExpenseModalOpen, followed by the steps of SpecModal; the
               \* steps of Spec stand for the open modal by `editing`
  ops,         \* async calls that are awaiting a response
  nOps,        \* number of mutations started so far
  settled,     \* the call that settled last
  lastReq,     \* result of the request answered last, by hook
  cat,         \* state of useCategories
  manager,     \* CategoryManager: newName, editingId, editingName
  srvCats,     \* server: the categories
  catOps,      \* async calls of useCategories awaiting a response
  nCatOps,     \* number of category operations started so far
  srvCatNextId, \* server: next category id
  form,        \* ExpenseForm / IncomeForm: mode, state, error, hasSubmitted
  entry,       \* the text the user enters into the amount input in this run
  typed,       \* the text the amount held by the form was entered as
  formLoading, \* the `loading` prop of the form (submitting of the hook)
  calls,       \* calls of onSubmit that have not settled
  submitted    \* the call of onSubmit made by the last step, if any

ledgerVars == <<mounted, srv, srvNextId, hook, summary, editing, modal, ops, nOps,
                settled, lastReq>>
catVars == <<cat, manager, srvCats, srvCatNextId, catOps, nCatOps>>
formVars == <<form, entry, typed, formLoading, calls, submitted>>
vars == <<ledgerVars, catVars, formVars>>

\* ----------------------------------------------------------------- server
RECURSIVE SumAmounts(_)
SumAmounts(s) ==
  IF s = <<>> THEN 0 ELSE Head(s).amount + SumAmounts(Tail(s))

ServerTotal(k) == SumAmounts(srv[k])
ServerBalance == ServerTotal("income") - ServerTotal("expense")

HasId(s, id) == \E i \in 1..Len(s) : s[i].id = id
RemoveId(s, id) == SelectSeq(s, LAMBDA r : r.id # id)
SetAmount(s, id, a) ==
  [i \in 1..Len(s) |-> IF s[i].id = id THEN [s[i] EXCEPT !.amount = a] ELSE s[i]]

NoData == [items |-> <<>>, total |-> 0, balance |-> 0]

\* the server's answer to the request an operation is waiting for
ServerOk(o) ==
  IF o.pc = "mut" /\ o.fn \in {"update", "remove"}
  THEN HasId(srv[o.kind], o.id)
  ELSE TRUE

ServerData(o) ==
  CASE o.pc \in {"list", "get"} /\ o.kind \in Kinds ->
         [items |-> srv[o.kind], total |-> ServerTotal(o.kind), balance |-> 0]
    [] o.pc \in {"summary", "get"} /\ o.kind = "summary" ->
         [items |-> <<>>, total |-> 0, balance |-> ServerBalance]
    [] OTHER -> NoData

ServerRecords(o) ==
  IF o.pc # "mut" \/ ~ServerOk(o) THEN srv
  ELSE CASE o.fn = "create" ->
              [srv EXCEPT ![o.kind] =
                 Append(@, [id |-> srvNextId, amount |-> o.amount,
                            category |-> <<"R">>])]
         [] o.fn = "update" ->
              [srv EXCEPT ![o.kind] = SetAmount(@, o.id, o.amount)]
         [] o.fn = "remove" ->
              [srv EXCEPT ![o.kind] = RemoveId(@, o.id)]

\* ------------------------------------------------- useExpenses / useIncomes
InitHook == [items |-> <<>>, total |-> 0, loading |-> FALSE,
             submitting |-> FALSE, error |-> Null]
InitSummary == [balance |-> 0, loading |-> FALSE, error |-> Null]

\* refresh: setLoading(true) before the GET
refreshStart(h) == [h EXCEPT !.loading = TRUE]

\* refresh that stores the items of the response and skips setTotal
refreshOkItemsOnly(h, data) ==
  [h EXCEPT !.items = data.items, !.error = Null, !.loading = FALSE]

\* refresh: the GET succeeded
refreshOk(h, data) ==
  [h EXCEPT !.items = data.items, !.total = data.total,
            !.error = Null, !.loading = FALSE]

\* a refresh whose failure leaves loading set
refreshFailStuck(h) == [h EXCEPT !.error = ErrMsg]

\* refresh: catch and finally
refreshFail(h) == [h EXCEPT !.error = ErrMsg, !.loading = FALSE]

\* create / update / remove: setSubmitting(true) before the request
mutateStart(h) == [h EXCEPT !.submitting = TRUE]

\* a catch that rethrows without setError
mutateFailSilent(h) == [h EXCEPT !.submitting = FALSE]

\* create / update / remove: catch (setError, throw) and finally
mutateFail(h) == [h EXCEPT !.error = ErrMsg, !.submitting = FALSE]

\* create / update / remove: after `await refresh()`: setError(null), finally
mutateDone(h) == [h EXCEPT !.error = Null, !.submitting = FALSE]

\* useSummary.refresh
summaryStart(s) == [s EXCEPT !.loading = TRUE]
summaryOk(s, data) ==
  [s EXCEPT !.balance = data.balance, !.error = Null, !.loading = FALSE]
summaryFail(s) == [s EXCEPT !.error = ErrMsg, !.loading = FALSE]

\* ------------------------------------------------------------- operations
MutMethod(fn) ==
  CASE fn = "create" -> "POST" [] fn = "update" -> "PUT" [] fn = "remove" -> "DELETE"

NoOp == [n |-> 0, fn |-> "none", kind |-> "none", pc |-> "none",
         stage |-> "none", ok |-> FALSE, data |-> NoData, id |-> 0,
         amount |-> 0, log |-> <<>>]

\* a mount effect that sets loading and sends no request
RefreshOpNoRequest(kind) ==
  [NoOp EXCEPT !.fn = "refresh", !.kind = kind, !.pc = "get", !.stage = "sent"]

\* a call of refresh() made by a mount effect
RefreshOp(kind) ==
  [NoOp EXCEPT !.fn = "refresh", !.kind = kind, !.pc = "get", !.stage = "sent",
     !.log = <<Req("GET", IF kind = "summary" THEN SummaryPath ELSE ListPath(kind), 0)>>]

\* a call of hook.create / update / remove made by an App handler
MutationOp(n, fn, kind, id, amount) ==
  [NoOp EXCEPT !.n = n, !.fn = fn, !.kind = kind, !.pc = "mut",
     !.stage = "sent", !.id = id, !.amount = amount,
     !.log = <<Req(MutMethod(fn), ListPath(kind), id)>>]

\* the mutation succeeded: the hook goes on to `await refresh()`
opRefetch(o) ==
  [o EXCEPT !.pc = "list", !.stage = "sent",
            !.log = Append(@, Req("GET", ListPath(o.kind), 0))]

\* the call returns to its caller
opResolve(o) == [o EXCEPT !.pc = "resolved", !.stage = "none"]

\* an App handler that returns without `await summary.refresh()`
opSummarySkipped(o) == opResolve(o)

\* the hook call resolved: the App handler goes on to `await summary.refresh()`
opSummary(o) ==
  [o EXCEPT !.pc = "summary", !.stage = "sent",
            !.log = Append(@, Req("GET", SummaryPath, 0))]

\* the mutation failed: the hook rethrows and the App handler rejects
opReject(o) == [o EXCEPT !.pc = "rejected", !.stage = "none"]

Ended(o) == o.pc \in {"resolved", "rejected"}

HookOf(o) == IF o.pc = "summary" THEN "summary" ELSE o.kind

\* bookkeeping shared by every continuation
Continue(o, o2) ==
  /\ ops' = IF Ended(o2) THEN ops \ {o} ELSE (ops \ {o}) \cup {o2}
  /\ settled' = IF Ended(o2) /\ o2.fn # "refresh"
                THEN [o2 EXCEPT !.n = 0, !.data = NoData, !.ok = FALSE]
                ELSE settled

InitLedger ==
  /\ mounted = FALSE
  /\ srv = Stored
  /\ srvNextId = 3
  /\ hook = [k \in Kinds |-> InitHook]
  /\ summary = InitSummary
  /\ editing = <<>>
  /\ modal = FALSE
  /\ ops = {}
  /\ nOps = 0
  /\ settled = NoOp
  /\ lastReq = [h \in Kinds |-> "none"]

\* the App once the lists and the summary are loaded and the expense modal
\* is open on the stored expense
InitLedgerLoaded ==
  /\ mounted = TRUE
  /\ srv = Stored
  /\ srvNextId = 3
  /\ hook = [k \in Kinds |->
              refreshOk(InitHook, [items |-> Stored[k], total |-> SumAmounts(Stored[k])])]
  /\ summary = summaryOk(InitSummary,
                  [balance |-> SumAmounts(Stored["income"]) - SumAmounts(Stored["expense"])])
  /\ editing = <<"expense", 1>>
  /\ modal = TRUE
  /\ ops = {}
  /\ nOps = 0
  /\ settled = NoOp
  /\ lastReq = [h \in Kinds |-> "ok"]

\* the mount effects of useExpenses, useIncomes and useSummary
Mount ==
  /\ ~mounted
  /\ mounted' = TRUE
  /\ hook' = [k \in Kinds |-> refreshStart(hook[k])]
  /\ summary' = summaryStart(summary)
  /\ ops' = {RefreshOp(k) : k \in Kinds \cup {"summary"}}
  /\ UNCHANGED <<srv, srvNextId, editing, nOps, settled, lastReq, modal, catVars, formVars>>

\* rows and their buttons are rendered only when the list is shown
ListShown(k) == ~hook[k].loading /\ hook[k].error = Null
Shown(k, id) == ListShown(k) /\ HasId(hook[k].items, id)

\* ExpenseList / IncomeList: Edit
Edit(k, id) ==
  /\ mounted /\ editing = <<>> /\ Shown(k, id)
  /\ editing' = <<k, id>>
  /\ UNCHANGED <<mounted, srv, srvNextId, hook, summary, ops, nOps, settled,
                 lastReq, modal, catVars, formVars>>

\* Modal: close (closeExpenseModal / closeIncomeModal)
CloseModal ==
  /\ editing # <<>>
  /\ editing' = <<>>
  /\ UNCHANGED <<mounted, srv, srvNextId, hook, summary, ops, nOps, settled,
                 lastReq, modal, catVars, formVars>>

\* create / update / remove of a hook, up to the request, for the user's
\* first `max` mutations
StartMutationWithin(max, fn, k, id, a) ==
  /\ mounted /\ nOps < max
  /\ nOps' = nOps + 1
  /\ hook' = [hook EXCEPT ![k] = mutateStart(@)]
  /\ ops' = ops \cup {MutationOp(nOps + 1, fn, k, id, a)}
  /\ UNCHANGED <<mounted, srv, srvNextId, summary, editing, settled, lastReq,
                 modal, catVars, formVars>>

StartMutation(fn, k, id, a) == StartMutationWithin(MaxOps, fn, k, id, a)

\* form submit in create mode: handleExpenseCreate / handleIncomeCreate
SubmitCreate(k, a) ==
  /\ editing = <<>> /\ ~hook[k].submitting
  /\ StartMutation("create", k, 0, a)

\* form submit in edit mode: handleExpenseUpdate / handleIncomeUpdate
SubmitUpdate(k, a) ==
  /\ editing # <<>> /\ editing[1] = k /\ ~hook[k].submitting
  /\ StartMutation("update", k, editing[2], a)

\* ExpenseList / IncomeList: Delete
Delete(k, id) ==
  /\ editing = <<>> /\ Shown(k, id)
  /\ StartMutation("remove", k, id, 0)

\* ExpenseList / IncomeList: Delete, clicked up to MaxDeletes times
DeleteRow(k, id) ==
  /\ editing = <<>> /\ Shown(k, id)
  /\ StartMutationWithin(MaxDeletes, "remove", k, id, 0)

\* the server handles a request
ServerHandle(o) ==
  /\ o \in ops /\ o.stage = "sent"
  /\ srv' = ServerRecords(o)
  /\ srvNextId' = IF o.pc = "mut" /\ o.fn = "create" THEN srvNextId + 1 ELSE srvNextId
  /\ ops' = (ops \ {o}) \cup
            {[o EXCEPT !.stage = "answered", !.ok = ServerOk(o), !.data = ServerData(o)]}
  /\ UNCHANGED <<mounted, hook, summary, editing, nOps, settled, lastReq,
                 modal, catVars, formVars>>

\* continuation of a call when its request succeeded
OnSuccess(o) ==
  /\ lastReq' = IF HookOf(o) \in Kinds THEN [lastReq EXCEPT ![o.kind] = "ok"] ELSE lastReq
  /\ CASE o.pc = "get" /\ o.kind \in Kinds ->
            /\ hook' = [hook EXCEPT ![o.kind] = refreshOk(@, o.data)]
            /\ Continue(o, opResolve(o))
            /\ UNCHANGED <<summary, editing>>
       [] o.pc = "get" /\ o.kind = "summary" ->
            /\ summary' = summaryOk(summary, o.data)
            /\ Continue(o, opResolve(o))
            /\ UNCHANGED <<hook, editing>>
       [] o.pc = "mut" ->
            /\ hook' = [hook EXCEPT ![o.kind] = refreshStart(@)]
            /\ Continue(o, opRefetch(o))
            /\ UNCHANGED <<summary, editing>>
       [] o.pc = "list" ->
            /\ hook' = [hook EXCEPT ![o.kind] = mutateDone(refreshOk(@, o.data))]
            /\ summary' = summaryStart(summary)
            /\ editing' = IF o.fn = "update" /\ editing # <<>> /\ editing[1] = o.kind
                          THEN <<>> ELSE editing
            /\ Continue(o, opSummary(o))
       [] o.pc = "summary" ->
            /\ summary' = summaryOk(summary, o.data)
            /\ editing' = IF o.fn # "remove" /\ editing # <<>> /\ editing[1] = o.kind
                          THEN <<>> ELSE editing
            /\ Continue(o, opResolve(o))
            /\ UNCHANGED hook

\* continuation of a call when its request failed
OnFailure(o) ==
  /\ lastReq' = IF HookOf(o) \in Kinds THEN [lastReq EXCEPT ![o.kind] = "failed"] ELSE lastReq
  /\ CASE o.pc = "get" /\ o.kind \in Kinds ->
            /\ hook' = [hook EXCEPT ![o.kind] = refreshFail(@)]
            /\ Continue(o, opResolve(o))
            /\ UNCHANGED <<summary, editing>>
       [] o.pc = "get" /\ o.kind = "summary" ->
            /\ summary' = summaryFail(summary)
            /\ Continue(o, opResolve(o))
            /\ UNCHANGED <<hook, editing>>
       [] o.pc = "mut" ->
            /\ hook' = [hook EXCEPT ![o.kind] = mutateFail(@)]
            /\ Continue(o, opReject(o))
            /\ UNCHANGED <<summary, editing>>
       [] o.pc = "list" ->
            /\ hook' = [hook EXCEPT ![o.kind] = mutateDone(refreshFail(@))]
            /\ summary' = summaryStart(summary)
            /\ editing' = IF o.fn = "update" /\ editing # <<>> /\ editing[1] = o.kind
                          THEN <<>> ELSE editing
            /\ Continue(o, opSummary(o))
       [] o.pc = "summary" ->
            /\ summary' = summaryFail(summary)
            /\ editing' = IF o.fn # "remove" /\ editing # <<>> /\ editing[1] = o.kind
                          THEN <<>> ELSE editing
            /\ Continue(o, opResolve(o))
            /\ UNCHANGED hook

\* a response with a success status arrives
Deliver(o) ==
  /\ o \in ops /\ o.stage = "answered" /\ o.ok
  /\ OnSuccess(o)
  /\ UNCHANGED <<mounted, srv, srvNextId, nOps, modal, catVars, formVars>>

\* the request fails: error status, network error or timeout
RequestFails(o) ==
  /\ o \in ops /\ o.stage \in {"sent", "answered"}
  /\ OnFailure(o)
  /\ UNCHANGED <<mounted, srv, srvNextId, nOps, modal, catVars, formVars>>

\* ---------------------------------------------------------- useCategories
Names == {<<"F">>, <<"f">>, <<"R">>}
StoredCats == <<[id |-> 1, name |-> <<"R">>]>>      \* the categories found at start
CatIds == 1..(1 + MaxCatOps)

\* a.name.localeCompare(b.name, undefined, {sensitivity: 'base'}): the names
\* are ordered alphabetically, letter case ignored
NameKey(name) == CASE name \in {<<"F">>, <<"f">>} -> 1 [] name = <<"R">> -> 2

RECURSIVE sortCategories(_)
sortCategories(s) ==
  IF s = <<>> THEN <<>>
  ELSE LET x == s[Len(s)]
           t == sortCategories(SubSeq(s, 1, Len(s) - 1))
           c == Cardinality({i \in 1..Len(t) : NameKey(t[i].name) <= NameKey(x.name)})
       IN SubSeq(t, 1, c) \o <<x>> \o SubSeq(t, c + 1, Len(t))

NoCat == [id |-> 0, name |-> <<>>]
NoCatData == [items |-> <<>>, item |-> NoCat]

\* a call of useCategories: `typed` is the text of the input it was made
\* from, `value` the category selected in the form when it was made
CatOp(n, fn, id, name, text, value) ==
  [n |-> n, fn |-> fn, stage |-> "sent", ok |-> FALSE, data |-> NoCatData,
   id |-> id, name |-> name, typed |-> text, value |-> value]

\* server: a name is taken when another category has it, letter case ignored
NameTaken(name, self) ==
  \E i \in 1..Len(srvCats) :
    srvCats[i].id # self /\ NameKey(srvCats[i].name) = NameKey(name)

ServerCatOk(o) ==
  CASE o.fn = "refresh" -> TRUE
    [] o.fn = "create" -> ~NameTaken(o.name, 0)
    [] o.fn = "update" -> HasId(srvCats, o.id) /\ ~NameTaken(o.name, o.id)
    [] o.fn = "remove" -> HasId(srvCats, o.id)

ServerCats(o) ==
  IF ~ServerCatOk(o) THEN srvCats
  ELSE CASE o.fn = "refresh" -> srvCats
         [] o.fn = "create" -> Append(srvCats, [id |-> srvCatNextId, name |-> o.name])
         [] o.fn = "update" ->
              [i \in 1..Len(srvCats) |->
                 IF srvCats[i].id = o.id THEN [srvCats[i] EXCEPT !.name = o.name]
                 ELSE srvCats[i]]
         [] o.fn = "remove" -> RemoveId(srvCats, o.id)

ServerCatData(o) ==
  CASE o.fn = "refresh" -> [items |-> sortCategories(srvCats), item |-> NoCat]
    [] o.fn = "create" /\ ServerCatOk(o) ->
         [items |-> <<>>, item |-> [id |-> srvCatNextId, name |-> o.name]]
    [] o.fn = "update" /\ ServerCatOk(o) ->
         [items |-> <<>>, item |-> [id |-> o.id, name |-> o.name]]
    [] OTHER -> NoCatData

InitCat == [items |-> <<>>, loading |-> FALSE, submitting |-> FALSE, error |-> Null]

\* useCategories.refresh
catRefreshOk(c, data) ==
  [c EXCEPT !.items = sortCategories(data.items), !.error = Null, !.loading = FALSE]
catRefreshFail(c) == [c EXCEPT !.error = ErrMsg, !.loading = FALSE]

\* a create that appends the created category without sorting
catCreateOkAppend(c, data) ==
  [c EXCEPT !.items = Append(@, data.item), !.error = Null, !.submitting = FALSE]

\* useCategories.create: the POST succeeded
catCreateOk(c, data) ==
  [c EXCEPT !.items = sortCategories(Append(@, data.item)), !.error = Null,
            !.submitting = FALSE]

\* useCategories.update: the PUT succeeded
catUpdateOk(c, id, data) ==
  [c EXCEPT !.items = sortCategories(
                        [i \in 1..Len(@) |-> IF @[i].id = id THEN data.item ELSE @[i]]),
            !.error = Null, !.submitting = FALSE]

\* useCategories.remove: the DELETE succeeded
catRemoveOk(c, id) ==
  [c EXCEPT !.items = RemoveId(@, id), !.error = Null, !.submitting = FALSE]

\* useCategories.create / update / remove: catch and finally
catMutateFail(c) == [c EXCEPT !.error = ErrMsg, !.submitting = FALSE]

\* ------------------------------------------- utils/number: sanitizeDecimal
Digits == {"0", "1", "2", "3", "4", "5", "6", "7", "8", "9"}
Alphabet == {"0", "5", ".", ",", "-"}            \* characters the user enters

Take(s, n) == SubSeq(s, 1, IF Len(s) < n THEN Len(s) ELSE n)
Drop(s, n) == SubSeq(s, n + 1, Len(s))

RECURSIVE trim(_)
trim(s) ==
  IF s = <<>> THEN s
  ELSE IF Head(s) = " " THEN trim(Tail(s))
  ELSE IF s[Len(s)] = " " THEN trim(SubSeq(s, 1, Len(s) - 1))
  ELSE s

\* index of the first '.', or Len(s) + 1
FirstDot(s) ==
  IF \E i \in 1..Len(s) : s[i] = "."
  THEN CHOOSE i \in 1..Len(s) : s[i] = "." /\ \A j \in 1..(i - 1) : s[j] # "."
  ELSE Len(s) + 1

\* const [whole = '', ...rest] = allowed.split('.')
wholeOf(allowed) == SubSeq(allowed, 1, FirstDot(allowed) - 1)

\* a slice that keeps three fractional digits
decimalsOf3(allowed) ==
  Take(SelectSeq(Drop(allowed, FirstDot(allowed)), LAMBDA c : c # "."), 3)

\* rest.join('').slice(0, 2)
decimalsOf(allowed) ==
  Take(SelectSeq(Drop(allowed, FirstDot(allowed)), LAMBDA c : c # "."), 2)

\* whole.replace(/^0+(?=\d)/, '')
RECURSIVE stripZeros(_)
stripZeros(w) ==
  IF Len(w) >= 2 /\ Head(w) = "0" /\ w[2] \in Digits THEN stripZeros(Tail(w)) ELSE w

sanitizeDecimal(value, allowNegative) ==
  IF value = <<>> THEN <<>>
  ELSE LET t0 == trim(value)
           isNegative == allowNegative /\ t0 # <<>> /\ Head(t0) = "-"
           trimmed == IF isNegative THEN Tail(t0) ELSE t0
           allowed == SelectSeq(trimmed, LAMBDA c : c \in Digits \cup {"."})
           whole == wholeOf(allowed)
           decimals == decimalsOf(allowed)
           normalizedWhole == stripZeros(whole)
           safeWhole == IF normalizedWhole # <<>> THEN normalizedWhole
                        ELSE IF decimals # <<>> THEN <<"0">> ELSE whole
           sanitized == IF decimals # <<>> THEN safeWhole \o <<".">> \o decimals
                        ELSE safeWhole
       IN IF allowed = <<>> THEN <<>>
          ELSE IF sanitized = <<>> THEN <<>>
          ELSE IF isNegative THEN <<"-">> \o sanitized ELSE sanitized

sanitizeAmountInput(raw) == sanitizeDecimal(raw, FALSE)

\* ------------------------------------------------------ Number(string)
DigitValue(c) ==
  CASE c = "0" -> 0 [] c = "1" -> 1 [] c = "2" -> 2 [] c = "3" -> 3 [] c = "4" -> 4
    [] c = "5" -> 5 [] c = "6" -> 6 [] c = "7" -> 7 [] c = "8" -> 8 [] c = "9" -> 9

RECURSIVE DigitsValue(_)
DigitsValue(s) ==
  IF s = <<>> THEN 0 ELSE 10 * DigitsValue(SubSeq(s, 1, Len(s) - 1)) + DigitValue(s[Len(s)])

NaN == [nan |-> TRUE, sign |-> 0, mantissa |-> 0, scale |-> 0]

\* Number(s): NaN unless s, trimmed, is empty or an optionally signed decimal
\* literal; the value is sign * mantissa / 10^scale
Number(s) ==
  LET t == trim(s)
      neg == t # <<>> /\ Head(t) = "-"
      u == IF neg THEN Tail(t) ELSE t
      w == SubSeq(u, 1, FirstDot(u) - 1)
      f == Drop(u, FirstDot(u))
  IN IF t = <<>> THEN [nan |-> FALSE, sign |-> 0, mantissa |-> 0, scale |-> 0]
     ELSE IF \/ \E i \in 1..Len(u) : u[i] \notin Digits \cup {"."}
             \/ \E i \in 1..Len(f) : f[i] = "."
             \/ w \o f = <<>>
     THEN NaN
     ELSE LET m == DigitsValue(w \o f)
          IN [nan |-> FALSE, sign |-> IF m = 0 THEN 0 ELSE IF neg THEN -1 ELSE 1,
              mantissa |-> m, scale |-> Len(f)]

\* a grouping with '.' as the separator of the thousands (the de-DE locale)
RECURSIVE groupThousandsDots(_)
groupThousandsDots(w) ==
  IF Len(w) <= 3 THEN w
  ELSE groupThousandsDots(SubSeq(w, 1, Len(w) - 3)) \o <<".">>
         \o SubSeq(w, Len(w) - 2, Len(w))

\* amountFormatter.format of a whole number given by its digits: the en-US
\* grouping of Intl.NumberFormat, a ',' before every group of three digits
RECURSIVE groupThousands(_)
groupThousands(w) ==
  IF Len(w) <= 3 THEN w
  ELSE groupThousands(SubSeq(w, 1, Len(w) - 3)) \o <<",">>
         \o SubSeq(w, Len(w) - 2, Len(w))

\* formatAmount of a string: the whole part of the sanitized value, truncated
\* and grouped, then '.' and the decimal part as it stands. The digits of the
\* whole part pass through Number unchanged (they are far below 2^53)
formatAmount(value) ==
  LET sanitized == sanitizeDecimal(value, TRUE)
      neg == sanitized # <<>> /\ Head(sanitized) = "-"
      u == IF neg THEN Tail(sanitized) ELSE sanitized
      whole == SubSeq(u, 1, FirstDot(u) - 1)
      decimalPart == Drop(u, FirstDot(u))
      formattedWhole == (IF neg THEN <<"-">> ELSE <<>>) \o groupThousands(whole)
  IN IF sanitized = <<>> THEN <<>>
     ELSE IF Number(sanitized).nan THEN <<>>
     ELSE IF FirstDot(u) <= Len(u) THEN formattedWhole \o <<".">> \o decimalPart
     ELSE formattedWhole

\* ------------------------------------------------------- utils/datetime
\* the dates and times are the strings of <input type="date"> and
\* <input type="time">: yyyy-mm-dd with a year of four or more digits, hh:mm
Today == <<"2", "0", "2", "5", "-", "0", "6", "-", "1", "5">>
Yesterday == <<"2", "0", "2", "5", "-", "0", "6", "-", "1", "4">>
Tomorrow == <<"2", "0", "2", "5", "-", "0", "6", "-", "1", "6">>
FarFuture == <<"1", "0", "0", "0", "0", "-", "0", "1", "-", "0", "1">>
Midnight == <<"0", "0", ":", "0", "0">>
LateEvening == <<"2", "3", ":", "5", "9">>

\* an instant, as the fields of the local wall clock
Instant(y, mo, d, mi) == [year |-> y, month |-> mo, day |-> d, minute |-> mi]

\* new Date(): the clock reads noon of today
Now == Instant(2025, 6, 15, 720)

\* code unit of a character, for the comparison of strings with `>`
CharCode(c) ==
  CASE c = " " -> 32 [] c = "-" -> 45 [] c = ":" -> 58 [] c = "T" -> 84
    [] OTHER -> 48 + DigitValue(c)

\* a > b on strings: by code units, from the left
RECURSIVE StrGreater(_, _)
StrGreater(a, b) ==
  IF a = <<>> THEN FALSE
  ELSE IF b = <<>> THEN TRUE
  ELSE IF Head(a) = Head(b) THEN StrGreater(Tail(a), Tail(b))
  ELSE CharCode(Head(a)) > CharCode(Head(b))

DigitChar(d) ==
  CASE d = 0 -> "0" [] d = 1 -> "1" [] d = 2 -> "2" [] d = 3 -> "3" [] d = 4 -> "4"
    [] d = 5 -> "5" [] d = 6 -> "6" [] d = 7 -> "7" [] d = 8 -> "8" [] d = 9 -> "9"

\* value.toString()
RECURSIVE NumStr(_)
NumStr(n) == IF n < 10 THEN <<DigitChar(n)>> ELSE Append(NumStr(n \div 10), DigitChar(n % 10))

\* pad: value.toString().padStart(2, '0')
pad(n) == IF n < 10 THEN <<"0">> \o NumStr(n) ELSE NumStr(n)

\* toLocalDateInput, toLocalTimeInput of the instant of a stored record
toLocalDateInput(t) == NumStr(t.year) \o <<"-">> \o pad(t.month) \o <<"-">> \o pad(t.day)
toLocalTimeInput(t) == pad(t.minute \div 60) \o <<":">> \o pad(t.minute % 60)

getTodayIsoDate == toLocalDateInput(Now)

\* isFutureDate: dateValue > getTodayIsoDate(), a comparison of strings
isFutureDate(dateValue) == dateValue # <<>> /\ StrGreater(dateValue, getTodayIsoDate)

\* index of the first c in s, or Len(s) + 1
FirstOf(s, c) ==
  IF \E i \in 1..Len(s) : s[i] = c
  THEN CHOOSE i \in 1..Len(s) : s[i] = c /\ \A j \in 1..(i - 1) : s[j] # c
  ELSE Len(s) + 1

\* new Date(`${date}T${time}`): the date-time read as local time
parseLocal(date, time) ==
  LET i == FirstOf(date, "-")
  IN Instant(DigitsValue(SubSeq(date, 1, i - 1)), DigitsValue(SubSeq(date, i + 1, i + 2)),
             DigitsValue(SubSeq(date, i + 4, i + 5)),
             60 * DigitsValue(SubSeq(time, 1, 2)) + DigitsValue(SubSeq(time, 4, 5)))

\* toIsoString(combineDateAndTime(date, time)): the instants the payload can
\* carry. A year of more than four digits is outside the date-time format
\* every engine parses: the engine reads it all the same, or yields an
\* invalid Date, which is replaced by new Date()
combineDateAndTime(date, time) ==
  IF date = <<>> THEN {Now}
  ELSE LET safeTime == IF time # <<>> /\ trim(time) # <<>> THEN time ELSE Midnight
       IN IF FirstOf(date, "-") > 5 THEN {parseLocal(date, safeTime), Now}
          ELSE {parseLocal(date, safeTime)}

\* ------------------------------------------- ExpenseForm / IncomeForm
Categories == {<<>>, <<"R">>}      \* category (source for income): blank or given
Dates == {<<>>, Today}             \* date input: blank or today
DatesAny == Dates \cup {Yesterday, Tomorrow, FarFuture}
Times == {<<>>, LateEvening}       \* time input: blank or given
TagInputs == {<<>>, <<" ">>, <<"a">>, <<"a", ",", "a">>, <<"a", ",", "A">>,
              <<" ", "a", ",", ",">>}            \* texts of the tags input
DEFAULT_CURRENCY == <<"U", "S", "D">>
Undefined == "undefined"

emptyState == [amount |-> <<>>, currency |-> DEFAULT_CURRENCY, category |-> <<>>,
               payment_method |-> <<"c">>, incurred_date |-> <<>>,
               incurred_time |-> <<>>, tags |-> <<>>]

\* initialValues: the stored record being edited
StoredRecord == [amount |-> <<"1", "0", ".", "5", "0">>, currency |-> <<"U", "S", "D">>,
                 category |-> <<"R">>, payment_method |-> <<"c">>,
                 incurred_at |-> Instant(2025, 6, 14, 600), tags |-> << <<"a">> >>]

\* tags.join(', ')
RECURSIVE joinTags(_)
joinTags(tags) ==
  IF tags = <<>> THEN <<>>
  ELSE IF Len(tags) = 1 THEN tags[1]
  ELSE tags[1] \o <<",", " ">> \o joinTags(Tail(tags))

\* the state set by the effect on initialValues
editState(r) ==
  [amount |-> sanitizeAmountInput(r.amount),
   currency |-> IF r.currency # <<>> THEN r.currency ELSE DEFAULT_CURRENCY,
   category |-> r.category, payment_method |-> r.payment_method,
   incurred_date |-> toLocalDateInput(r.incurred_at),
   incurred_time |-> toLocalTimeInput(r.incurred_at),
   tags |-> joinTags(r.tags)]

\* a validation that leaves the category (source) unchecked
validateExpenseNoCategory(state) ==
  LET amountValue == Number(state.amount)
  IN [errors |->
        (IF trim(state.amount) = <<>> \/ amountValue.nan \/ amountValue.sign <= 0
         THEN {"amount"} ELSE {})
        \cup (IF trim(state.payment_method) = <<>> THEN {"payment_method"} ELSE {})
        \cup (IF state.incurred_date = <<>> \/ isFutureDate(state.incurred_date)
              THEN {"incurred_date"} ELSE {}),
      hasFutureDateError |->
        state.incurred_date # <<>> /\ isFutureDate(state.incurred_date)]

\* validateExpense / validateIncome
validateExpense(state) ==
  LET amountValue == Number(state.amount)
  IN [errors |->
        (IF trim(state.amount) = <<>> \/ amountValue.nan \/ amountValue.sign <= 0
         THEN {"amount"} ELSE {})
        \cup (IF trim(state.category) = <<>> THEN {"category"} ELSE {})
        \cup (IF trim(state.payment_method) = <<>> THEN {"payment_method"} ELSE {})
        \cup (IF state.incurred_date = <<>> \/ isFutureDate(state.incurred_date)
              THEN {"incurred_date"} ELSE {}),
      hasFutureDateError |->
        state.incurred_date # <<>> /\ isFutureDate(state.incurred_date)]

isFormValid(state) == validateExpense(state).errors = {}

\* getFieldError('amount'): the amount error shown under the input
amountError(f) ==
  "amount" \in validateExpense(f.state).errors
    /\ (f.hasSubmitted \/ trim(f.state.amount) # <<>>)

\* String.prototype.toUpperCase, on the letters of the currency codes
toUpperCase(s) ==
  [i \in 1..Len(s) |->
     CASE s[i] = "u" -> "U" [] s[i] = "s" -> "S" [] s[i] = "d" -> "D" [] OTHER -> s[i]]

\* state.tags.split(',')
RECURSIVE splitComma(_)
splitComma(s) ==
  LET i == FirstOf(s, ",")
  IN IF i > Len(s) THEN <<s>>
     ELSE <<SubSeq(s, 1, i - 1)>> \o splitComma(SubSeq(s, i + 1, Len(s)))

\* split(',').map(tag => tag.trim()).filter(Boolean)
parseTags(text) ==
  LET parts == splitComma(text)
      trimmed == [i \in 1..Len(parts) |-> trim(parts[i])]
  IN SelectSeq(trimmed, LAMBDA t : t # <<>>)

\* the payload built by handleSubmit
payloadOf(state, at) ==
  [amount |-> state.amount, currency |-> toUpperCase(state.currency),
   category |-> state.category, payment_method |-> state.payment_method,
   incurred_at |-> at,
   tags |-> IF state.tags # <<>> THEN parseTags(state.tags) ELSE Undefined]

NoPayload == [amount |-> <<>>, currency |-> <<>>, category |-> <<>>,
              payment_method |-> <<>>, incurred_at |-> Instant(0, 0, 0, 0),
              tags |-> Undefined]
NoCall == [called |-> FALSE, amount |-> <<>>, typed |-> <<>>, payload |-> NoPayload]

InitFormState(mode) ==
  [mode |-> mode, state |-> IF mode = "edit" THEN editState(StoredRecord) ELSE emptyState,
   error |-> Null, hasSubmitted |-> FALSE]

\* the effect on [hasSubmitted, isFormValid]: it clears the error when, after
\* a change of either, both hold
validityEffect(f, g) ==
  IF /\ g.hasSubmitted /\ isFormValid(g.state)
     /\ (~f.hasSubmitted \/ ~isFormValid(f.state))
  THEN [g EXCEPT !.error = Null] ELSE g

\* updateField that stores the text of the input as it is
updateAmountRaw(f, value) == [f EXCEPT !.state.amount = value]

\* updateField('amount')
updateAmount(f, value) == [f EXCEPT !.state.amount = sanitizeAmountInput(value)]

\* the texts of at most n characters of the amount input
RECURSIVE Texts(_)
Texts(n) ==
  IF n = 0 THEN {<<>>}
  ELSE Texts(n - 1) \cup {Append(t, c) : t \in {u \in Texts(n - 1) : Len(u) = n - 1},
                                         c \in Alphabet}

InitForms ==
  /\ form = InitFormState("create")
  /\ entry = <<>>
  /\ typed = <<>>
  /\ formLoading = FALSE
  /\ calls = 0
  /\ submitted = NoCall

InitFormsAny ==
  /\ entry \in Texts(MaxLen)
  /\ \E mode \in {"create", "edit"} :
       /\ form = InitFormState(mode)
       /\ typed = IF mode = "edit" THEN StoredRecord.amount ELSE <<>>
  /\ formLoading = FALSE
  /\ calls = 0
  /\ submitted = NoCall

\* the form with one amount to enter, opened to create or to edit
InitFormsPayload ==
  /\ entry = <<"5">>
  /\ \E mode \in {"create", "edit"} :
       /\ form = InitFormState(mode)
       /\ typed = IF mode = "edit" THEN StoredRecord.amount ELSE <<>>
  /\ formLoading = FALSE
  /\ calls = 0
  /\ submitted = NoCall

\* the form opened on the stored record
InitFormsEdit ==
  /\ form = InitFormState("edit")
  /\ entry = <<>>
  /\ typed = StoredRecord.amount
  /\ formLoading = FALSE
  /\ calls = 0
  /\ submitted = NoCall

\* the amount input changes to `value` (typed over or pasted)
ChangeAmount(value) ==
  /\ form' = validityEffect(form, updateAmount(form, value))
  /\ typed' = value
  /\ submitted' = NoCall
  /\ UNCHANGED <<entry, formLoading, calls, ledgerVars, catVars>>

\* a key is pressed in the amount input, the cursor at the end of the text
\* displayed: the input event carries formatAmount(state.amount) and the key
KeyPressed(c) ==
  /\ form' = validityEffect(form, updateAmount(form, formatAmount(form.state.amount) \o <<c>>))
  /\ typed' = Append(typed, c)
  /\ submitted' = NoCall
  /\ UNCHANGED <<entry, formLoading, calls, ledgerVars, catVars>>

\* the next character of `entry` is typed
TypeNextKey ==
  /\ Len(typed) < Len(entry) /\ typed = SubSeq(entry, 1, Len(typed))
  /\ KeyPressed(entry[Len(typed) + 1])

\* updateField(field) of a field other than the amount
ChangeField(s) ==
  /\ form' = validityEffect(form, [form EXCEPT !.state = s])
  /\ submitted' = NoCall
  /\ UNCHANGED <<entry, typed, formLoading, calls, ledgerVars, catVars>>

\* updateField('source') / CategoryManager select
ChangeCategory(c) == ChangeField([form.state EXCEPT !.category = c])

\* updateField('incurred_date')
ChangeDate(d) == ChangeField([form.state EXCEPT !.incurred_date = d])

\* updateField('incurred_time')
ChangeTime(t) == ChangeField([form.state EXCEPT !.incurred_time = t])

\* handleUseCurrentTime: getCurrentTimeInput()
UseCurrentTime == ChangeField([form.state EXCEPT !.incurred_time = toLocalTimeInput(Now)])

\* updateField('tags')
ChangeTags(t) == ChangeField([form.state EXCEPT !.tags = t])

\* handleSubmit, up to `await onSubmit(payload)`
Submit ==
  /\ ~formLoading /\ ~validateExpense(form.state).hasFutureDateError
  /\ IF ~isFormValid(form.state)
     THEN /\ form' = [form EXCEPT !.error = "Please correct the highlighted fields.",
                                  !.hasSubmitted = TRUE]
          /\ submitted' = NoCall
          /\ UNCHANGED <<formLoading, calls>>
     ELSE /\ calls < MaxCalls
          /\ form' = [form EXCEPT !.error = Null, !.hasSubmitted = TRUE]
          /\ \E at \in combineDateAndTime(form.state.incurred_date,
                                          form.state.incurred_time) :
               submitted' = [called |-> TRUE, amount |-> form.state.amount,
                             typed |-> typed, payload |-> payloadOf(form.state, at)]
          /\ formLoading' = TRUE
          /\ calls' = calls + 1
  /\ UNCHANGED <<entry, typed, ledgerVars, catVars>>

\* the hook operation behind onSubmit resolved: `loading` goes back to false
LoadingEnds ==
  /\ formLoading /\ calls > 0
  /\ formLoading' = FALSE
  /\ submitted' = NoCall
  /\ UNCHANGED <<entry, form, typed, calls, ledgerVars, catVars>>

\* handleSubmit, after `await onSubmit(payload)` resolved
SubmitResolved ==
  /\ calls > 0 /\ ~formLoading
  /\ calls' = calls - 1
  /\ form' = [form EXCEPT !.state = IF form.mode = "edit" THEN @ ELSE emptyState,
                          !.hasSubmitted = FALSE]
  /\ typed' = IF form.mode = "edit" THEN typed ELSE <<>>
  /\ submitted' = NoCall
  /\ UNCHANGED <<entry, formLoading, ledgerVars, catVars>>

\* handleSubmit, when `await onSubmit(payload)` rejected
SubmitRejected ==
  /\ calls > 0 /\ formLoading
  /\ calls' = calls - 1
  /\ formLoading' = FALSE
  /\ form' = [form EXCEPT !.error = ErrMsg]
  /\ submitted' = NoCall
  /\ UNCHANGED <<entry, typed, ledgerVars, catVars>>

\* -------------------------------------------------------- CategoryManager
TypedNames == {<<" ">>, <<" ", "F">>, <<"f">>, <<"R">>}   \* texts of the name inputs
InitManager == [showManager |-> FALSE, newName |-> <<>>, editingId |-> 0,
                editingName |-> <<>>]

InitCats ==
  /\ cat = InitCat
  /\ manager = InitManager
  /\ srvCats = StoredCats
  /\ srvCatNextId = 2
  /\ catOps = {}
  /\ nCatOps = 0

\* the rest of the application, which no step of the CategoryManager touches
managerFrame == <<srvCats, srvCatNextId, ledgerVars, entry, typed, formLoading, calls>>

\* the mount effect of useCategories
CatMount ==
  /\ nCatOps = 0
  /\ nCatOps' = 1
  /\ cat' = [cat EXCEPT !.loading = TRUE]
  /\ catOps' = {CatOp(1, "refresh", 0, <<>>, <<>>, <<>>)}
  /\ submitted' = NoCall
  /\ UNCHANGED <<manager, form, managerFrame>>

StartCatOp(fn, id, name, text) ==
  /\ nCatOps >= 1 /\ nCatOps < MaxCatOps
  /\ nCatOps' = nCatOps + 1
  /\ catOps' = catOps \cup {CatOp(nCatOps + 1, fn, id, name, text, form.state.category)}
  /\ cat' = IF fn = "refresh" THEN [cat EXCEPT !.loading = TRUE]
            ELSE [cat EXCEPT !.submitting = TRUE]
  /\ submitted' = NoCall
  /\ UNCHANGED <<manager, form, managerFrame>>

\* isBusy: the form is submitting or a category request is in flight
isBusy == formLoading \/ cat.submitting

IndexOfId(items, id) == (CHOOSE i \in 1..Len(items) : items[i].id = id)

\* hasSelectedValue: the value names one of the categories held
hasSelectedValue(items, value) == \E i \in 1..Len(items) : items[i].name = value

\* a select that offers the categories held and nothing else
selectOptionsLive(items, value) == {items[i].name : i \in 1..Len(items)}

\* the options of the select below "Select category": the categories held,
\* and the value itself when it names none of them
selectOptions(items, value) ==
  {items[i].name : i \in 1..Len(items)}
    \cup (IF ~hasSelectedValue(items, value) /\ value # <<>> THEN {value} ELSE {})

\* a step of the CategoryManager that only sets its own state
SetManager(m) ==
  /\ manager' = m
  /\ submitted' = NoCall
  /\ UNCHANGED <<cat, catOps, nCatOps, form, managerFrame>>

\* toggleManager: the Manage / Close button
ToggleManager ==
  /\ nCatOps >= 1 /\ ~cat.loading
  /\ SetManager(IF manager.showManager
                THEN [manager EXCEPT !.showManager = FALSE, !.editingId = 0,
                                     !.editingName = <<>>]
                ELSE [manager EXCEPT !.showManager = TRUE])

\* the "New category name" input changes
TypeNewName(text) ==
  /\ manager.showManager /\ ~isBusy
  /\ SetManager([manager EXCEPT !.newName = text])

\* beginEdit: Rename on a row
BeginEdit(id) ==
  /\ manager.showManager /\ ~isBusy /\ HasId(cat.items, id) /\ manager.editingId # id
  /\ SetManager([manager EXCEPT !.editingId = id,
                                !.editingName = cat.items[IndexOfId(cat.items, id)].name])

\* the name input of the row being renamed changes
TypeEditName(text) ==
  /\ manager.showManager /\ ~isBusy /\ HasId(cat.items, manager.editingId)
  /\ SetManager([manager EXCEPT !.editingName = text])

\* cancelEdit
CancelEdit ==
  /\ manager.showManager /\ HasId(cat.items, manager.editingId)
  /\ SetManager([manager EXCEPT !.editingId = 0, !.editingName = <<>>])

\* the name sent to create / update, without newName.trim()
trimmedNameRaw(text) == text

\* const trimmed = newName.trim() / editingName.trim()
trimmedName(text) == trim(text)

\* CategoryManager: the Refresh button
CatRefresh == ~cat.loading /\ StartCatOp("refresh", 0, <<>>, <<>>)

\* CategoryManager.handleAdd, up to `await categories.create`
CatAdd ==
  /\ manager.showManager /\ ~isBusy
  /\ LET trimmed == trimmedName(manager.newName)
     IN IF trimmed = <<>> THEN UNCHANGED vars
        ELSE StartCatOp("create", 0, trimmed, manager.newName)

\* CategoryManager.handleUpdate, up to `await categories.update`
CatRename ==
  /\ manager.showManager /\ ~isBusy /\ HasId(cat.items, manager.editingId)
  /\ LET trimmed == trimmedName(manager.editingName)
     IN IF trimmed = <<>> THEN UNCHANGED vars
        ELSE StartCatOp("update", manager.editingId, trimmed, manager.editingName)

\* CategoryManager.handleDelete on a row, up to `await categories.remove`
CatDelete(id) ==
  /\ manager.showManager /\ ~isBusy /\ HasId(cat.items, id) /\ manager.editingId # id
  /\ StartCatOp("remove", id, cat.items[IndexOfId(cat.items, id)].name, <<>>)

\* ExpenseForm.handleCategoryChange, and the effect on the validity
handleCategoryChange(f, next) ==
  validityEffect(f, [f EXCEPT !.state.category = next])

\* CategoryManager.handleSelect: an option of the select is chosen
CatSelect(name) ==
  /\ ~isBusy /\ ~cat.loading
  /\ \E i \in 1..Len(cat.items) : cat.items[i].name = name
  /\ form' = handleCategoryChange(form, name)
  /\ submitted' = NoCall
  /\ UNCHANGED <<cat, manager, catOps, nCatOps, managerFrame>>

\* the server handles a category request
CatServerHandle(o) ==
  /\ o \in catOps /\ o.stage = "sent"
  /\ srvCats' = ServerCats(o)
  /\ srvCatNextId' = IF o.fn = "create" /\ ServerCatOk(o) THEN srvCatNextId + 1
                     ELSE srvCatNextId
  /\ catOps' = (catOps \ {o}) \cup
       {[o EXCEPT !.stage = "answered", !.ok = ServerCatOk(o), !.data = ServerCatData(o)]}
  /\ submitted' = NoCall
  /\ UNCHANGED <<cat, manager, nCatOps, ledgerVars, form, entry, typed, formLoading, calls>>

\* handleAdd passing the typed text to onChange
createdNameTyped(o) == o.typed

\* handleAdd: the name passed to onChange is created.name
createdName(o) == o.data.item.name

\* the form after handleAdd / handleUpdate / handleDelete went on past the await
formAfter(o) ==
  CASE o.fn = "create" -> handleCategoryChange(form, createdName(o))
    [] o.fn = "update" -> handleCategoryChange(form, o.data.item.name)
    [] o.fn = "remove" -> IF o.value = o.name THEN handleCategoryChange(form, <<>>)
                          ELSE form
    [] OTHER -> form

\* the manager after handleAdd (setNewName(''), setShowManager(true)) /
\* handleUpdate (cancelEdit)
managerAfter(o) ==
  CASE o.fn = "create" -> [manager EXCEPT !.newName = <<>>, !.showManager = TRUE]
    [] o.fn = "update" -> [manager EXCEPT !.editingId = 0, !.editingName = <<>>]
    [] OTHER -> manager

\* a rename that also rewrites the category of the records held by useExpenses
managerContinuesCascading(o) ==
  /\ form' = formAfter(o)
  /\ manager' = managerAfter(o)
  /\ hook' = IF o.fn # "update" \/ ~HasId(cat.items, o.id) THEN hook
             ELSE LET old == cat.items[IndexOfId(cat.items, o.id)].name
                  IN [hook EXCEPT !["expense"].items =
                        [i \in 1..Len(@) |->
                           IF @[i].category = old
                           THEN [@[i] EXCEPT !.category = o.data.item.name] ELSE @[i]]]
  /\ UNCHANGED <<mounted, srv, srvNextId, summary, editing, modal, ops, nOps, settled,
                 lastReq>>

\* handleAdd / handleUpdate / handleDelete after the awaited call resolved:
\* onChange on the form and the manager's own state, nothing else
managerContinues(o) ==
  /\ form' = formAfter(o)
  /\ manager' = managerAfter(o)
  /\ UNCHANGED ledgerVars

\* a category response with a success status arrives
CatDeliver(o) ==
  /\ o \in catOps /\ o.stage = "answered" /\ o.ok
  /\ cat' = CASE o.fn = "refresh" -> catRefreshOk(cat, o.data)
              [] o.fn = "create" -> catCreateOk(cat, o.data)
              [] o.fn = "update" -> catUpdateOk(cat, o.id, o.data)
              [] o.fn = "remove" -> catRemoveOk(cat, o.id)
  /\ catOps' = catOps \ {o}
  /\ managerContinues(o)
  /\ submitted' = NoCall
  /\ UNCHANGED <<srvCats, srvCatNextId, nCatOps, entry, typed, formLoading, calls>>

\* a category request fails: error status, network error or timeout; the
\* handlers of the CategoryManager only log the error
CatFail(o) ==
  /\ o \in catOps
  /\ o.stage \in {"sent", "answered"}
  /\ cat' = IF o.fn = "refresh" THEN catRefreshFail(cat) ELSE catMutateFail(cat)
  /\ catOps' = catOps \ {o}
  /\ submitted' = NoCall
  /\ UNCHANGED <<manager, nCatOps, form, managerFrame>>

\* ------------------------------------------- App: the expense modal
\* the amount of a record, in cents, as the string the server returns
amountText(c) == NumStr(c \div 100) \o <<".">> \o pad(c % 100)

\* the amount of a payload in cents, as the server stores it
centsOf(text) ==
  LET v == Number(text)
  IN CASE v.scale = 0 -> v.mantissa * 100
       [] v.scale = 1 -> v.mantissa * 10
       [] OTHER -> v.mantissa

\* the record of the list row `id`, as initialValues of the form
initialValuesOf(id) ==
  LET r == hook["expense"].items[CHOOSE i \in 1..Len(hook["expense"].items) :
                                   hook["expense"].items[i].id = id]
  IN [StoredRecord EXCEPT !.amount = amountText(r.amount), !.category = r.category]

\* the ExpenseForm mounted by a render of the Modal: a new instance, with no
\* call of onSubmit of its own
MountForm(mode, r) ==
  /\ form' = [mode |-> mode,
              state |-> IF mode = "edit" THEN editState(r) ELSE emptyState,
              error |-> Null, hasSubmitted |-> FALSE]
  /\ typed' = IF mode = "edit" THEN r.amount ELSE <<>>
  /\ calls' = 0

\* the add button (fab) of the expenses tab
OpenAdd ==
  /\ mounted /\ ~modal
  /\ editing' = <<>>
  /\ modal' = TRUE
  /\ MountForm("create", StoredRecord)
  /\ formLoading' = hook["expense"].submitting
  /\ submitted' = NoCall
  /\ UNCHANGED <<mounted, srv, srvNextId, hook, summary, ops, nOps, settled, lastReq,
                 catVars, entry>>

\* ExpenseList onEdit: the Edit button of a row
OpenEdit(id) ==
  /\ mounted /\ ~modal /\ Shown("expense", id)
  /\ editing' = <<"expense", id>>
  /\ modal' = TRUE
  /\ MountForm("edit", initialValuesOf(id))
  /\ formLoading' = hook["expense"].submitting
  /\ submitted' = NoCall
  /\ UNCHANGED <<mounted, srv, srvNextId, hook, summary, ops, nOps, settled, lastReq,
                 catVars, entry>>

\* closeExpenseModal, from the Modal (Escape, overlay, close button) or the
\* Cancel button of the form; the Modal renders nothing and the form unmounts
CloseExpenseModal ==
  /\ modal
  /\ modal' = FALSE
  /\ editing' = <<>>
  /\ MountForm("create", StoredRecord)
  /\ formLoading' = hook["expense"].submitting
  /\ submitted' = NoCall
  /\ UNCHANGED <<mounted, srv, srvNextId, hook, summary, ops, nOps, settled, lastReq,
                 catVars, entry>>

\* an onSubmit that always creates
submitRequestCreate(e) == [fn |-> "create", id |-> 0]

\* the onSubmit given to the form: handleExpenseUpdate(editingExpense.id, ...)
\* when a record is being edited, handleExpenseCreate otherwise
submitRequest(e) ==
  IF e # <<>> THEN [fn |-> "update", id |-> e[2]] ELSE [fn |-> "create", id |-> 0]

\* ExpenseForm.handleSubmit in the modal, up to the request of the hook
ModalSubmit ==
  /\ modal /\ ~formLoading /\ ~validateExpense(form.state).hasFutureDateError
  /\ IF ~isFormValid(form.state)
     THEN /\ form' = [form EXCEPT !.error = "Please correct the highlighted fields.",
                                  !.hasSubmitted = TRUE]
          /\ submitted' = NoCall
          /\ UNCHANGED <<formLoading, calls, hook, ops, nOps>>
     ELSE /\ calls < MaxCalls /\ nOps < MaxOps
          /\ form' = [form EXCEPT !.error = Null, !.hasSubmitted = TRUE]
          /\ \E at \in combineDateAndTime(form.state.incurred_date,
                                          form.state.incurred_time) :
               submitted' = [called |-> TRUE, amount |-> form.state.amount,
                             typed |-> typed, payload |-> payloadOf(form.state, at)]
          /\ calls' = calls + 1
          /\ nOps' = nOps + 1
          /\ hook' = [hook EXCEPT !["expense"] = mutateStart(@)]
          /\ ops' = ops \cup {MutationOp(nOps + 1, submitRequest(editing).fn, "expense",
                                         submitRequest(editing).id,
                                         centsOf(form.state.amount))}
          /\ formLoading' = TRUE
  /\ UNCHANGED <<mounted, srv, srvNextId, summary, editing, modal, settled, lastReq,
                 catVars, entry, typed>>

\* a catch of handleSubmit that also empties the form
formRejectedReset(f) == [f EXCEPT !.state = emptyState, !.error = ErrMsg]

\* the catch of handleSubmit: setError(err.message)
formRejected(f) == [f EXCEPT !.error = ErrMsg]

\* what a continuation of an App handler does to the modal and the form:
\* `rejected` when the hook call threw, else by the position of the call
ModalContinues(o, rejected) ==
  /\ formLoading' = hook'["expense"].submitting
  /\ submitted' = NoCall
  /\ IF rejected
     THEN \* onSubmit rejects: the form that awaits it, if still mounted, catches
          /\ modal' = modal
          /\ IF o.fn \in {"create", "update"} /\ calls > 0
             THEN form' = formRejected(form) /\ calls' = 0
             ELSE UNCHANGED <<form, calls>>
          /\ UNCHANGED typed
     ELSE IF o.pc = "summary" /\ o.fn \in {"create", "update"}
     THEN \* onSubmit goes on to closeExpenseModal(): the form unmounts
          /\ modal' = FALSE
          /\ MountForm("create", StoredRecord)
     ELSE IF modal /\ editing # <<>> /\ editing' = <<>>
     THEN \* setEditingExpense(null) changes the key of the form: it remounts
          /\ modal' = modal
          /\ MountForm("create", StoredRecord)
     ELSE UNCHANGED <<modal, form, typed, calls>>

\* a response with a success status arrives, with the modal followed
ModalDeliver(o) ==
  /\ o \in ops /\ o.stage = "answered" /\ o.ok
  /\ OnSuccess(o)
  /\ ModalContinues(o, FALSE)
  /\ UNCHANGED <<mounted, srv, srvNextId, nOps, catVars, entry>>

\* the request fails, with the modal followed
ModalFail(o) ==
  /\ o \in ops /\ o.stage \in {"sent", "answered"}
  /\ OnFailure(o)
  /\ ModalContinues(o, o.pc = "mut")
  /\ UNCHANGED <<mounted, srv, srvNextId, nOps, catVars, entry>>

\* ------------------------------------------------------- specifications
Init == InitLedger /\ InitCats /\ InitForms

InitForm == InitLedger /\ InitCats /\ InitFormsAny

NextForm ==
  \/ ChangeAmount(entry)
  \/ \E c \in Categories : ChangeCategory(c)
  \/ \E d \in Dates : ChangeDate(d)
  \/ Submit
  \/ LoadingEnds
  \/ SubmitResolved
  \/ SubmitRejected

Ids == 1..(2 + MaxOps)

Next ==
  \/ Mount
  \/ \E k \in Kinds, id \in Ids : Edit(k, id)
  \/ CloseModal
  \/ \E k \in Kinds, a \in Amounts : SubmitCreate(k, a)
  \/ \E k \in Kinds, a \in Amounts : SubmitUpdate(k, a)
  \/ \E k \in Kinds, id \in Ids : Delete(k, id)
  \/ \E o \in ops : ServerHandle(o)
  \/ \E o \in ops : Deliver(o)
  \/ \E o \in ops : RequestFails(o)

NextCat ==
  \/ CatMount
  \/ CatRefresh
  \/ ToggleManager
  \/ \E text \in TypedNames : TypeNewName(text)
  \/ CatAdd
  \/ \E id \in CatIds : BeginEdit(id)
  \/ \E text \in TypedNames : TypeEditName(text)
  \/ CancelEdit
  \/ CatRename
  \/ \E id \in CatIds : CatDelete(id)
  \/ \E name \in Names : CatSelect(name)
  \/ \E o \in catOps : CatServerHandle(o)
  \/ \E o \in catOps : CatDeliver(o)
  \/ \E o \in catOps : CatFail(o)

\* adding categories from the form, and submitting the form
NextAdd ==
  \/ CatMount
  \/ ToggleManager
  \/ \E text \in TypedNames : TypeNewName(text)
  \/ CatAdd
  \/ \E name \in Names : CatSelect(name)
  \/ \E o \in catOps : CatServerHandle(o)
  \/ \E o \in catOps : CatDeliver(o)
  \/ \E o \in catOps : CatFail(o)
  \/ Submit
  \/ LoadingEnds
  \/ SubmitResolved
  \/ SubmitRejected

\* everything that happens without a user action once the hooks are mounted
NextMount ==
  \/ Mount
  \/ CatMount
  \/ \E o \in ops : ServerHandle(o)
  \/ \E o \in ops : Deliver(o)
  \/ \E o \in ops : RequestFails(o)
  \/ \E o \in catOps : CatServerHandle(o)
  \/ \E o \in catOps : CatDeliver(o)
  \/ \E o \in catOps : CatFail(o)

InitManaged == InitLedgerLoaded /\ InitCats /\ InitFormsEdit

Spec == Init /\ [][Next]_vars

SpecCat == InitManaged /\ [][NextCat]_vars

SpecAdd == InitManaged /\ [][NextAdd]_vars

SpecMount == Init /\ [][NextMount]_vars

SpecForm == InitForm /\ [][NextForm]_vars

InitPayload == InitLedger /\ InitCats /\ InitFormsPayload

NextPayload ==
  \/ ChangeAmount(entry)
  \/ \E c \in Categories : ChangeCategory(c)
  \/ \E d \in DatesAny : ChangeDate(d)
  \/ \E t \in Times : ChangeTime(t)
  \/ UseCurrentTime
  \/ \E t \in TagInputs : ChangeTags(t)
  \/ Submit
  \/ LoadingEnds
  \/ SubmitResolved
  \/ SubmitRejected

SpecPayload == InitPayload /\ [][NextPayload]_vars

\* the create form and a text to enter in its amount input
InitFormsTyping ==
  /\ entry \in Texts(MaxLen)
  /\ form = InitFormState("create")
  /\ typed = <<>>
  /\ formLoading = FALSE
  /\ calls = 0
  /\ submitted = NoCall

InitTyping == InitLedger /\ InitCats /\ InitFormsTyping

\* the text is typed key by key, or pasted at once
NextTyping ==
  \/ TypeNextKey
  \/ ChangeAmount(entry)

SpecTyping == InitTyping /\ [][NextTyping]_vars

\* the App with its lists loaded, the modal closed, and an amount to enter
InitFormsModal ==
  /\ form = InitFormState("create")
  /\ entry = <<"5">>
  /\ typed = <<>>
  /\ formLoading = FALSE
  /\ calls = 0
  /\ submitted = NoCall

\* the expense modal: opened to add or to edit, filled, submitted, closed
NextModal ==
  \/ OpenAdd
  \/ \E id \in Ids : OpenEdit(id)
  \/ CloseExpenseModal
  \/ modal /\ ChangeAmount(entry)
  \/ \E c \in Categories : modal /\ ChangeCategory(c)
  \/ \E d \in Dates : modal /\ ChangeDate(d)
  \/ ModalSubmit
  \/ \E o \in ops : ServerHandle(o)
  \/ \E o \in ops : ModalDeliver(o)
  \/ \E o \in ops : ModalFail(o)

\* the App once the lists and the summary are loaded, no modal open
InitLedgerIdle ==
  /\ mounted = TRUE
  /\ srv = Stored
  /\ srvNextId = 3
  /\ hook = [k \in Kinds |->
              refreshOk(InitHook, [items |-> Stored[k], total |-> SumAmounts(Stored[k])])]
  /\ summary = summaryOk(InitSummary,
                  [balance |-> SumAmounts(Stored["income"]) - SumAmounts(Stored["expense"])])
  /\ editing = <<>>
  /\ modal = FALSE
  /\ ops = {}
  /\ nOps = 0
  /\ settled = NoOp
  /\ lastReq = [h \in Kinds |-> "ok"]

InitDelete == InitLedgerIdle /\ InitCats /\ InitForms

\* rows deleted from the lists, one click after another
NextDelete ==
  \/ \E k \in Kinds, id \in Ids : DeleteRow(k, id)
  \/ \E o \in ops : ServerHandle(o)
  \/ \E o \in ops : Deliver(o)
  \/ \E o \in ops : RequestFails(o)

SpecDelete == InitDelete /\ [][NextDelete]_vars

\* the calls of every hook: the lists and the summary through the mutations of
\* the App, the categories through the mount effect
NextSettle ==
  \/ CloseModal
  \/ \E k \in Kinds, a \in Amounts : SubmitCreate(k, a)
  \/ \E k \in Kinds, a \in Amounts : SubmitUpdate(k, a)
  \/ \E k \in Kinds, id \in Ids : Delete(k, id)
  \/ \E o \in ops : ServerHandle(o)
  \/ \E o \in ops : Deliver(o)
  \/ \E o \in ops : RequestFails(o)
  \/ CatMount
  \/ \E o \in catOps : CatServerHandle(o)
  \/ \E o \in catOps : CatDeliver(o)
  \/ \E o \in catOps : CatFail(o)

\* every request is eventually answered: handled by the server and delivered,
\* or failed (error status, network error, timeout)
RequestsAnswered ==
  /\ WF_vars(\E o \in ops : ServerHandle(o) \/ Deliver(o) \/ RequestFails(o))
  /\ WF_vars(\E o \in catOps : CatServerHandle(o) \/ CatDeliver(o) \/ CatFail(o))

SpecSettle == InitManaged /\ [][NextSettle]_vars /\ RequestsAnswered

InitModal == InitLedgerIdle /\ InitCats /\ InitFormsModal

SpecModal == InitModal /\ [][NextModal]_vars

\* the record being edited names a category that was renamed to "F" or
\* deleted since the record was stored
InitCatsStale ==
  /\ cat = InitCat
  /\ manager = InitManager
  /\ srvCats \in {<<>>, <<[id |-> 1, name |-> <<"F">>]>>}
  /\ srvCatNextId = 2
  /\ catOps = {}
  /\ nCatOps = 0

InitStale == InitLedgerLoaded /\ InitCatsStale /\ InitFormsEdit

\* the form is edited and submitted without a step that sets its category
NextStale ==
  \/ CatMount
  \/ CatRefresh
  \/ \E o \in catOps : CatServerHandle(o)
  \/ \E o \in catOps : CatDeliver(o)
  \/ \E o \in catOps : CatFail(o)
  \/ \E t \in Times : ChangeTime(t)
  \/ Submit
  \/ LoadingEnds
  \/ SubmitResolved
  \/ SubmitRejected

SpecStale == InitStale /\ [][NextStale]_vars

\* ------------------------------------------------------------------ claims
InFlight(h) == \E o \in ops : HookOf(o) = h

MutationLog(o) ==
  <<Req(MutMethod(o.fn), ListPath(o.kind), o.id), Req("GET", ListPath(o.kind), 0),
    Req("GET", SummaryPath, 0)>>

\* C1: a mutation started from the App whose POST/PUT/DELETE succeeded is
\* followed by GET on the list of its kind and then by GET /summary, and no
\* GET of the operation is issued while the mutation is still unanswered.
C1_RefetchAfterMutation ==
  /\ \A o \in ops :
       /\ o.pc = "mut" => o.log = SubSeq(MutationLog(o), 1, 1)
       /\ o.pc = "list" => o.log = SubSeq(MutationLog(o), 1, 2)
       /\ o.pc = "summary" => o.log = MutationLog(o)
  /\ settled.pc = "resolved" => settled.log = MutationLog(settled)

C1_Witness ==
  /\ settled.pc = "resolved" /\ settled.fn = "remove"
  /\ Len(settled.log) = 3

\* C2: when no request of useExpenses (useIncomes) is in flight and its last
\* request succeeded, the items and total held are the server's.
C2_ViewEqualsServer ==
  \A k \in Kinds :
    (~InFlight(k) /\ lastReq[k] = "ok") =>
      (hook[k].items = srv[k] /\ hook[k].total = ServerTotal(k))

\* C3: in every hook the items held change only by being replaced with the
\* body of a GET list response; no mutation response and no local computation
\* is merged into them.
C3_ItemsOnlyFromGet ==
  [][/\ \A k \in Kinds :
          hook'[k].items # hook[k].items =>
            \E o \in ops : /\ o.kind = k /\ o.pc \in {"get", "list"}
                           /\ o.stage = "answered" /\ o.ok
                           /\ hook'[k].items = o.data.items
     /\ cat'.items # cat.items =>
          \E o \in catOps : /\ o.fn = "refresh" /\ o.stage = "answered" /\ o.ok
                            /\ cat'.items = sortCategories(o.data.items)]_vars

\* C4: when the POST, PUT or DELETE of a mutation fails, items and total keep
\* their values, no GET is issued for the operation, error becomes non-null
\* and the operation rejects.
C4_FailedMutation ==
  [][\A o \in ops :
       (o.pc = "mut" /\ OnFailure(o)) =>
         /\ hook'[o.kind].items = hook[o.kind].items
         /\ hook'[o.kind].total = hook[o.kind].total
         /\ hook'[o.kind].error # Null
         /\ summary' = summary
         /\ settled'.pc = "rejected"
         /\ settled'.log = SubSeq(MutationLog(o), 1, 1)
         /\ \A p \in ops' : p.n # o.n]_vars

C4_Witness == settled.pc = "rejected" /\ hook[settled.kind].error # Null

\* C5: after any failed request the error of the hook is non-null once the
\* enclosing hook operation has settled, the list re-fetch after a successful
\* mutation included.
C5_ErrorSurfaced ==
  [][\A o \in ops :
       OnFailure(o) =>
         IF HookOf(o) = "summary" THEN summary'.error # Null
         ELSE hook'[o.kind].error # Null]_vars

C7_BalanceIsDifference ==
  (ops = {} /\ summary.error = Null /\ \A k \in Kinds : hook[k].error = Null) =>
    summary.balance = hook["income"].total - hook["expense"].total

FracDigitsOf(t) == SelectSeq(Drop(t, FirstDot(t)), LAMBDA c : c \in Digits)
WholeDigitsOf(t) == SelectSeq(SubSeq(t, 1, FirstDot(t) - 1), LAMBDA c : c \in Digits)
DotsIn(t) == Cardinality({i \in 1..Len(t) : t[i] = "."})
HasNonZeroDigit(t) == \E i \in 1..Len(t) : t[i] \in Digits \ {"0"}

\* C8: every payload passed to onSubmit has an amount made of digits with at
\* most one '.', at most 2 fractional digits, and a strictly positive value.
C8_SubmittedAmountIsValid ==
  submitted.called =>
    LET a == submitted.amount
    IN /\ \A i \in 1..Len(a) : a[i] \in Digits \cup {"."}
       /\ DotsIn(a) <= 1
       /\ WholeDigitsOf(a) # <<>>
       /\ Len(FracDigitsOf(a)) <= 2
       /\ HasNonZeroDigit(a)

C8_Witness ==
  /\ submitted.called /\ submitted.typed = entry
  /\ Len(FracDigitsOf(entry)) > 2

\* a text that reads as zero or as a negative number
IsZeroOrNegative(t) ==
  trim(t) # <<>> /\ ~Number(t).nan /\ Number(t).sign <= 0

\* C9: an amount entered as "0" or as a negative value such as "-5.00" is
\* rejected: the form reports an amount error and onSubmit is never called
\* for that input.
C9_ZeroOrNegativeRejected ==
  /\ IsZeroOrNegative(typed) => amountError(form)
  /\ submitted.called => ~IsZeroOrNegative(submitted.typed)

\* C10: sanitizeAmountInput keeps digits and '.' only and cuts the fractional
\* part to its first 2 digits: the fractional digits of the result are the
\* first two fractional digits of the input, and the whole part is unchanged
\* in value.
C10_SanitizeTruncates ==
  /\ LET r == form.state.amount
     IN /\ \A i \in 1..Len(r) : r[i] \in Digits \cup {"."}
        /\ FracDigitsOf(r) = Take(FracDigitsOf(typed), 2)
        /\ DigitsValue(WholeDigitsOf(r)) = DigitsValue(WholeDigitsOf(typed))
  /\ sanitizeAmountInput(<<"1", ",", "2", "3", "4", ".", "5", "6", "7">>)
       = <<"1", "2", "3", "4", ".", "5", "6">>

C10_Witness ==
  /\ typed = entry /\ Len(FracDigitsOf(entry)) > 2
  /\ Len(FracDigitsOf(form.state.amount)) = 2

\* a is a later instant than b
Later(a, b) ==
  \/ a.year > b.year
  \/ a.year = b.year /\ a.month > b.month
  \/ a.year = b.year /\ a.month = b.month /\ a.day > b.day
  \/ a.year = b.year /\ a.month = b.month /\ a.day = b.day /\ a.minute > b.minute

\* C11: every payload passed to onSubmit carries an incurred_at / received_at
\* that is not later than the current time at the moment of submission.
C11_NoFutureInstantSubmitted ==
  submitted.called => ~Later(submitted.payload.incurred_at, Now)

\* the calendar day of an instant
DayOf(t) == [t EXCEPT !.minute = 0]

\* C12: the date check blocks the submission of every date that is at least
\* one calendar day after today, and raises no date error for a date and time
\* that is not later than now.
C12_DateCheck ==
  LET s == form.state
      d == s.incurred_date
      v == validateExpense(s)
      t == IF s.incurred_time # <<>> THEN s.incurred_time ELSE Midnight
  IN /\ (d # <<>> /\ Later(DayOf(parseLocal(d, Midnight)), DayOf(Now)))
          => (v.hasFutureDateError /\ ~submitted.called)
     /\ (d # <<>> /\ ~Later(parseLocal(d, t), Now))
          => "incurred_date" \notin v.errors

\* the entries of s, each kept at its first occurrence only
RECURSIVE Dedupe(_)
Dedupe(s) ==
  IF s = <<>> THEN <<>>
  ELSE LET r == Dedupe(SubSeq(s, 1, Len(s) - 1))
           x == s[Len(s)]
       IN IF \E i \in 1..Len(r) : r[i] = x THEN r ELSE Append(r, x)

TagsOf(p) == IF p.tags = Undefined THEN <<>> ELSE p.tags

\* C13: the tags of every submitted payload are the comma-separated entries of
\* the tags input, trimmed, without the empty ones and without duplicates
\* (compared case-sensitively), in the order of first occurrence.
C13_TagsNormalized ==
  submitted.called =>
    TagsOf(submitted.payload) = Dedupe(parseTags(form.state.tags))

Blank(x) == trim(x) = <<>>

\* C14: every payload passed to onSubmit has a non-blank amount, currency,
\* category (source), payment_method (received_method) and an incurred_at
\* (received_at) taken from a date that was entered; a form in which one of
\* the five is blank is not submitted.
C14_RequiredFieldsPresent ==
  submitted.called =>
    LET p == submitted.payload
        s == form.state
    IN /\ ~Blank(p.amount) /\ ~Blank(p.currency) /\ ~Blank(p.category)
       /\ ~Blank(p.payment_method)
       /\ p.incurred_at \in combineDateAndTime(s.incurred_date, s.incurred_time)
       /\ ~Blank(s.amount) /\ ~Blank(s.currency) /\ ~Blank(s.category)
       /\ ~Blank(s.payment_method) /\ s.incurred_date # <<>>

C14_Witness ==
  /\ submitted.called /\ form.mode = "create"
  /\ submitted.payload.category = <<"R">> /\ submitted.payload.currency = DEFAULT_CURRENCY

\* C15: no step of a category rename or delete (the request, its handling by
\* the server, the continuation in useCategories and CategoryManager) changes
\* the records held by useExpenses / useIncomes or stored by the server.
C15_RecordsUntouched ==
  [][(cat' # cat \/ catOps' # catOps \/ srvCats' # srvCats)
       => (hook' = hook /\ srv' = srv)]_vars

C15_Witness ==
  /\ \E i \in 1..Len(cat.items) : cat.items[i].id = 1 /\ cat.items[i].name # <<"R">>
  /\ hook["expense"].items[1].category = <<"R">>
  /\ catOps = {}

\* C16: the items held by useCategories are ordered by name, letter case
\* ignored, whatever refresh, create, update and remove calls were made and in
\* whatever order their responses arrived.
C16_ItemsOrderedByName ==
  \A i, j \in 1..Len(cat.items) :
    i < j => NameKey(cat.items[i].name) <= NameKey(cat.items[j].name)

C16_Witness ==
  /\ Len(cat.items) = 2
  /\ cat.items[1].id = 2 /\ cat.items[2].id = 1

\* C17: every name sent to category create or rename is the typed text
\* trimmed, and is non-empty; a typed text that is blank after trimming sends
\* no request.
C17_NamesTrimmed ==
  [][\A o \in catOps' \ catOps :
       (o.stage = "sent" /\ o.fn \in {"create", "update"}) =>
         /\ o.typed = IF o.fn = "create" THEN manager.newName ELSE manager.editingName
         /\ o.name = trim(o.typed)
         /\ o.name # <<>> /\ o.name[1] # " " /\ o.name[Len(o.name)] # " "]_vars

C17_Witness ==
  /\ manager.newName = <<" ", "F">>
  /\ \E o \in catOps : o.fn = "create" /\ o.typed = <<" ", "F">> /\ o.name = <<"F">>

\* C18: when an add made in CategoryManager succeeds, the category selected in
\* the form becomes the name the server returned for the created category, and
\* a payload submitted next carries the selected category as it is.
C18_CreatedNameSelected ==
  [][/\ \A o \in catOps :
          (o.fn = "create" /\ CatDeliver(o)) => form'.state.category = o.data.item.name
     /\ submitted'.called => submitted'.payload.category = form.state.category]_vars

C18_Witness ==
  /\ submitted.called /\ submitted.payload.category = <<"F">>
  /\ \E i \in 1..Len(cat.items) : cat.items[i].id = 2 /\ cat.items[i].name = <<"F">>

MountGets(h) == {o \in ops : o.fn = "refresh" /\ o.kind = h}

\* C19: each hook issues one GET when it mounts, with no user action, and
\* until the first response arrives it holds items [] and total 0.00
\* (balance 0.00 for the summary).
C19_MountFetch ==
  /\ ~mounted => (ops = {} /\ hook = [k \in Kinds |-> InitHook] /\ summary = InitSummary)
  /\ \A k \in Kinds :
       lastReq[k] = "none" =>
         /\ hook[k].items = <<>> /\ hook[k].total = 0
         /\ mounted => /\ Cardinality(MountGets(k)) = 1
                       /\ \A o \in MountGets(k) : o.log = <<Req("GET", ListPath(k), 0)>>
  /\ (mounted /\ summary.loading) =>
       /\ summary.balance = 0
       /\ Cardinality(MountGets("summary")) = 1
       /\ \A o \in MountGets("summary") : o.log = <<Req("GET", SummaryPath, 0)>>
  /\ nCatOps = 0 => (cat = InitCat /\ catOps = {})
  /\ (nCatOps = 1 /\ cat.loading) =>
       /\ cat.items = <<>>
       /\ \E o \in catOps : o.fn = "refresh" /\ catOps = {o}

C19_Witness ==
  /\ mounted /\ nCatOps = 1 /\ cat.loading
  /\ lastReq["expense"] = "none" /\ hook["expense"].loading
  /\ lastReq["income"] = "ok" /\ hook["income"].items # <<>>
  /\ summary.loading

\* the rows ExpenseList / IncomeList displays for the state of a hook
DisplayedRows(h) == IF h.loading \/ h.error # Null THEN <<>> ELSE h.items

\* C20: after a failed mutation the list displays the same rows as before it;
\* the rows stay visible until the next refresh.
C20_StaleRowsStayVisible ==
  [][\A o \in ops :
       (o.pc = "mut" /\ OnFailure(o)) =>
         DisplayedRows(hook'[o.kind]) = DisplayedRows(hook[o.kind])]_vars

\* C21: an expense whose stored category names no category held, opened for
\* editing: the form keeps the stored name selected, the select offers it, and
\* a submit sends it unchanged.
C21_StaleCategoryKept ==
  /\ form.state.category = StoredRecord.category
  /\ form.state.category \in selectOptions(cat.items, form.state.category)
  /\ submitted.called => submitted.payload.category = StoredRecord.category

C21_Witness ==
  /\ submitted.called
  /\ nCatOps >= 1 /\ ~cat.loading /\ cat.error = Null
  /\ ~hasSelectedValue(cat.items, form.state.category)
  /\ Len(cat.items) = 1

\* C22: in edit mode a submit made with the tags input emptied carries an
\* explicit (empty) value for tags; the field is not left out of the payload.
C22_EmptiedFieldSent ==
  (submitted.called /\ form.mode = "edit" /\ form.state.tags = <<>>)
    => submitted.payload.tags # Undefined

\* the name held for the category `id`
NameOfId(items, id) ==
  IF HasId(items, id) THEN items[IndexOfId(items, id)].name ELSE <<>>

\* C23: a rename of a category that is not the one selected in the form, neither
\* when Save was clicked nor when the response arrives, leaves the form's
\* selected category unchanged.
C23_RenameKeepsSelection ==
  [][\A o \in catOps :
       (/\ o.fn = "update" /\ CatDeliver(o)
        /\ HasId(cat.items, o.id)
        /\ NameOfId(cat.items, o.id) # form.state.category
        /\ NameOfId(cat.items, o.id) # o.value)
         => form'.state.category = form.state.category]_vars

\* C24: the items held by useCategories never contain two entries with the
\* same id.
C24_NoDuplicateIds ==
  \A i, j \in 1..Len(cat.items) : cat.items[i].id = cat.items[j].id => i = j

\* C25: submitting of useExpenses (of useIncomes) is true whenever one of its
\* create / update / remove calls has not settled yet.
C25_SubmittingWhileInFlight ==
  \A k \in Kinds :
    (\E o \in ops : o.kind = k /\ o.fn \in {"create", "update", "remove"}
                     /\ o.pc \in {"mut", "list"})
      => hook[k].submitting

\* a decimal amount as sanitizeAmountInput leaves it: digits, no leading zero
\* before a digit, at most one '.' with one or two digits after it
IsSanitizedAmount(t) == t # <<>> /\ sanitizeAmountInput(t) = t

\* C26: typing the characters of a valid decimal amount one after another
\* leaves that amount in the form.
C26_TypedAmountKept ==
  [][(TypeNextKey /\ typed' = entry /\ IsSanitizedAmount(entry))
       => form'.state.amount = entry]_vars

C27_RejectedSubmitKeepsForm ==
  [][\A o \in ops :
       /\ (ModalFail(o) /\ o.pc = "mut" /\ o.fn \in {"create", "update"})
            => /\ modal' = modal /\ editing' = editing
               /\ form'.state = form.state /\ form'.mode = form.mode
               /\ calls > 0 => form'.error # Null
       /\ ((ModalDeliver(o) \/ ModalFail(o))
             /\ \/ modal /\ ~modal'
                \/ form.mode = "create" /\ form.state # emptyState
                     /\ form'.state = emptyState)
            => o.pc = "summary" /\ o.fn \in {"create", "update"}]_vars

C27_Witness ==
  /\ modal /\ settled.pc = "rejected" /\ ops = {}
  /\ form.error = ErrMsg /\ form.mode = "create" /\ isFormValid(form.state)

\* C28: a form submit issues PUT /expenses/{id} with the id of the record the
\* modal was opened on, and POST /expenses when it was opened with the add
\* button.
C28_SubmitRequest ==
  [][/\ \A o \in ops' \ ops :
          (o.pc = "mut" /\ o.stage = "sent")
            => IF form.mode = "edit"
               THEN /\ editing # <<>>
                    /\ o.log = <<Req("PUT", ListPath("expense"), editing[2])>>
               ELSE o.log = <<Req("POST", ListPath("expense"), 0)>>
     /\ OpenAdd => form'.mode = "create" /\ editing' = <<>>
     /\ \A id \in Ids : OpenEdit(id) => form'.mode = "edit" /\ editing' = <<"expense", id>>
    ]_vars

C28_Witness ==
  /\ form.mode = "edit" /\ editing = <<"expense", 1>>
  /\ \E o \in ops : o.fn = "update" /\ o.pc = "mut" /\ o.id = 1

====
